---- MODULE Spec2Model ----
(***************************************************************************)
(* State-machine model of S3Manager.py: the local sqlite table s3_files    *)
(* that mirrors an S3 bucket (update_local_database), the upload decision  *)
(* (needFile) and the directory walk that uploads files (upload_files).    *)
(*                                                                         *)
(* A table is a function from the filenames it holds (the PRIMARY KEY) to  *)
(* rows [size, updated_at].  db is the committed content of the database   *)
(* file; tx is the view of the connection that update_local_database or    *)
(* upload_files holds open, which reaches db only at conn.commit().        *)
(***************************************************************************)
EXTENDS Integers, Sequences, FiniteSets, TLC

VARIABLES
    DT_RULE,         \* config.DT_RULE, fixed for the life of the process
    clk,             \* index into Instants of the last value datetime.now() gave
    tableExists,     \* the s3_files table exists in DATABASE_FILE
    db,              \* committed rows of s3_files
    remote,          \* the bucket: key -> size
    localSize,       \* data_directory: file -> os.path.getsize
    pc,              \* "idle", "reconcile" (in update_local_database), "upload" (in
                     \* upload_files), "done" (the call has just ended)
    tx,              \* rows as seen by the open connection (uncommitted)
    existing_files,  \* update_local_database: dict read from the table
    current_files,   \* update_local_database: dict built from the listing
    todoUp,          \* keys of current_files the first loop has not visited yet
    todoDel,         \* keys of existing_files the second loop has not visited yet
    walk,            \* files the walk of upload_files has not visited yet
    dec,             \* the last needFile decision of the running walk: <<>> or <<record>>
    lastOp,          \* the function called last
    result,          \* "running", or how it ended: "returned", "raised", "interrupted"
    err,             \* the exception or error code the call met, "" if none
    pre,             \* db when the last call started
    runUp,           \* transfers per file in the current upload_files run
    mutated,         \* filenames the current update_local_database run wrote or deleted
    uploads,         \* transfers per file since the start (saturating at MaxCount),
                     \* counted for the files whose size never changed
    written,         \* files whose size was changed since the start
    dirty,           \* a transfer succeeded whose row was never committed, and no
                     \* update_local_database has completed since
    resync,          \* upload_files was called at least once while dirty
    justRec,         \* the last thing that happened is a completed update_local_database
    again,           \* the running/last update_local_database started right after a
                     \* completed one, with the same listing
    ops,             \* calls and environment changes so far
    calls            \* the last two calls of the key builders, with what they returned

vars == <<DT_RULE, clk, tableExists, db, remote, localSize, pc, tx,
          existing_files, current_files, todoUp, todoDel, walk, dec, lastOp,
          result, err, pre, runUp, mutated, uploads, written, dirty, resync,
          justRec, again, ops, calls>>

---------------------------------------------------------------------------
(* Bounds *)

MaxClock == 2     \* instants of Instants the clock may reach
MaxSize == 2      \* file and object sizes range over 1..MaxSize
MaxCount == 2     \* transfer counters saturate here
MaxOps == 3       \* calls of the program plus changes from outside in one behaviour

---------------------------------------------------------------------------
(* The local directory tree: one MAC folder with two regular files. *)

Macs == {"dev1"}
Names == {"a.txt", "b.txt"}
Files == {[mac |-> m, name |-> n] : m \in Macs, n \in Names}
Sizes == 1..MaxSize

(* Values of DT_RULE a config.py may hold; "minutes" is not one the code knows. *)
Rules == {"seconds", "hours", "days", "weeks", "months", "years", "never", "minutes"}

(* The configurations the behaviours start from: no time bucket, a bucket per
   day, and a value format_datetime rejects. *)
ConfiguredRules == {"never", "days", "minutes"}

(* Sample values of datetime.now(), in increasing order.  yday counts from 0,
   wday from Sunday = 0, as in struct tm. *)
Instants ==
    << [Y |-> 2024, m |-> 12, d |-> 28, H |-> 23, M |-> 59, S |-> 59, yday |-> 362, wday |-> 6],
       [Y |-> 2024, m |-> 12, d |-> 29, H |-> 0,  M |-> 0,  S |-> 0,  yday |-> 363, wday |-> 0],
       [Y |-> 2025, m |-> 1,  d |-> 1,  H |-> 0,  M |-> 0,  S |-> 0,  yday |-> 0,   wday |-> 3],
       [Y |-> 2025, m |-> 1,  d |-> 1,  H |-> 0,  M |-> 0,  S |-> 1,  yday |-> 0,   wday |-> 3],
       [Y |-> 2025, m |-> 1,  d |-> 11, H |-> 0,  M |-> 0,  S |-> 1,  yday |-> 10,  wday |-> 6],
       [Y |-> 2025, m |-> 11, d |-> 1,  H |-> 0,  M |-> 0,  S |-> 1,  yday |-> 304, wday |-> 6] >>

(* datetime.now(): the clock does not run backwards and moves at most one
   sample instant between two reads. *)
Ticks(c) == {t \in {c, c + 1} : t <= MaxClock /\ t <= Len(Instants)}

---------------------------------------------------------------------------
(* strftime *)

DigitChars == <<"0", "1", "2", "3", "4", "5", "6", "7", "8", "9">>
Digit(n) == DigitChars[n + 1]
\* two-digit fields written without their leading zero
Pad2NoZero(n) == IF n < 10 THEN Digit(n) ELSE Digit((n \div 10) % 10) \o Digit(n % 10)

Pad2(n) == Digit((n \div 10) % 10) \o Digit(n % 10)
Year4(n) == Digit((n \div 1000) % 10) \o Digit((n \div 100) % 10)
            \o Digit((n \div 10) % 10) \o Digit(n % 10)
WeekU(now) == (now.yday + 7 - now.wday) \div 7

(* DATETIME_FORMAT is '%Y-%m-%dT%H:%M:%S.%f' with its last four characters
   cut off: '%Y-%m-%dT%H:%M:%'.  The lone trailing '%' comes out as '%'. *)
DATETIME_FORMAT(now) ==
    Year4(now.Y) \o "-" \o Pad2(now.m) \o "-" \o Pad2(now.d) \o "T"
    \o Pad2(now.H) \o ":" \o Pad2(now.M) \o ":" \o "%"

Ok(v) == [exc |-> "", val |-> v]
Raise(e, v) == [exc |-> e, val |-> v]

\* a format_datetime that takes every rule it does not know for 'never'
FormatForLenient(rule, now) ==
    IF rule = "seconds" THEN
        Ok(Year4(now.Y) \o Pad2(now.m) \o Pad2(now.d) \o Pad2(now.H) \o Pad2(now.M) \o Pad2(now.S))
    ELSE IF rule = "hours" THEN
        Ok(Year4(now.Y) \o Pad2(now.m) \o Pad2(now.d) \o Pad2(now.H))
    ELSE IF rule = "days" THEN
        Ok(Year4(now.Y) \o Pad2(now.m) \o Pad2(now.d))
    ELSE IF rule = "weeks" THEN
        Ok(Year4(now.Y) \o Pad2(WeekU(now)))
    ELSE IF rule = "months" THEN
        Ok(Year4(now.Y) \o Pad2(now.m))
    ELSE IF rule = "years" THEN
        Ok(Year4(now.Y))
    ELSE
        Ok("")

FormatFor(rule, now) ==
    IF rule = "seconds" THEN
        Ok(Year4(now.Y) \o Pad2(now.m) \o Pad2(now.d) \o Pad2(now.H) \o Pad2(now.M) \o Pad2(now.S))
    ELSE IF rule = "hours" THEN
        Ok(Year4(now.Y) \o Pad2(now.m) \o Pad2(now.d) \o Pad2(now.H))
    ELSE IF rule = "days" THEN
        Ok(Year4(now.Y) \o Pad2(now.m) \o Pad2(now.d))
    ELSE IF rule = "weeks" THEN
        Ok(Year4(now.Y) \o Pad2(WeekU(now)))
    ELSE IF rule = "months" THEN
        Ok(Year4(now.Y) \o Pad2(now.m))
    ELSE IF rule = "years" THEN
        Ok(Year4(now.Y))
    ELSE IF rule = "never" THEN
        Ok("")
    ELSE
        Raise("ValueError", "")

format_datetime(now) == FormatFor(DT_RULE, now)

\* the parts of the key put one after the other, nothing between them
JoinKeyNoSlash(mac, datetime_str, filename) == mac \o datetime_str \o filename

\* lines 53-56: the two f-strings of build_s3_filename
JoinKey(mac, datetime_str, filename) ==
    IF datetime_str # "" THEN mac \o "/" \o datetime_str \o "/" \o filename
    ELSE mac \o "/" \o filename

\* a clock that is read once, when the module is loaded
build_s3_filenameFrozen(now, mac, filename) ==
    LET datetime_str == format_datetime(Instants[1]) IN
    IF datetime_str.exc # "" THEN datetime_str
    ELSE Ok(JoinKey(mac, datetime_str.val, filename))

build_s3_filename(now, mac, filename) ==
    LET datetime_str == format_datetime(now) IN
    IF datetime_str.exc # "" THEN datetime_str
    ELSE Ok(JoinKey(mac, datetime_str.val, filename))

---------------------------------------------------------------------------
(* The s3_files table and the SQL statements the program executes on it. *)

EmptyTable == [k \in {} |-> [size |-> 0, updated_at |-> ""]]
Row(size, updated_at) == [size |-> size, updated_at |-> updated_at]

\* an INSERT that writes nothing
SqlInsertNothing(t, filename, size, updated_at) == t

\* INSERT INTO s3_files: only executed for a filename the table does not hold
SqlInsert(t, filename, size, updated_at) ==
    [k \in DOMAIN t \cup {filename} |->
        IF k = filename THEN Row(size, updated_at) ELSE t[k]]

\* an UPDATE without its WHERE clause
SqlUpdateAll(t, filename, size, updated_at) ==
    [k \in DOMAIN t |-> Row(size, updated_at)]

\* UPDATE s3_files SET size = ?, updated_at = ? WHERE filename = ?
SqlUpdate(t, filename, size, updated_at) ==
    [k \in DOMAIN t |-> IF k = filename THEN Row(size, updated_at) ELSE t[k]]

\* a DELETE that removes nothing
SqlDeleteNothing(t, filename) == t

\* DELETE FROM s3_files WHERE filename = ?
SqlDelete(t, filename) == [k \in DOMAIN t \ {filename} |-> t[k]]

\* INSERT OR IGNORE: a filename the table holds keeps its old row
SqlInsertOrIgnore(t, filename, size, updated_at) ==
    [k \in DOMAIN t \cup {filename} |->
        IF k \in DOMAIN t THEN t[k] ELSE Row(size, updated_at)]

\* INSERT OR REPLACE INTO s3_files
SqlInsertOrReplace(t, filename, size, updated_at) ==
    [k \in DOMAIN t \cup {filename} |->
        IF k = filename THEN Row(size, updated_at) ELSE t[k]]

\* DROP TABLE and CREATE TABLE: the table is there afterwards, and empty
ensure_database_recreated(exists, rows) == [exists |-> TRUE, rows |-> EmptyTable]

\* CREATE TABLE IF NOT EXISTS s3_files, committed: an absent table is created
\* empty, a table that is there keeps its rows
ensure_database_exists(exists, rows) ==
    [exists |-> TRUE, rows |-> IF exists THEN rows ELSE EmptyTable]

\* the SELECT without its "AND size = ?"
SqlSelectByName(t, filename, size) == {k \in DOMAIN t : k = filename}

\* SELECT filename, size FROM s3_files WHERE filename = ? AND size = ?
SqlSelectMatch(t, filename, size) ==
    {k \in DOMAIN t : k = filename /\ t[k].size = size}

\* SELECT filename, size FROM s3_files, as a dict
SqlSelectAll(t) == [k \in DOMAIN t |-> t[k].size]

\* a commit that is lost
CommitLost(committed, view) == committed

\* conn.commit(): the connection's rows become the committed rows
Commit(committed, view) == view

\* a needFile that answers True whatever the table holds
needFileAlways(now, mac, filename, size) ==
    LET s3_filename == build_s3_filename(now, mac, filename) IN
    IF s3_filename.exc # "" THEN Raise(s3_filename.exc, FALSE)
    ELSE IF ~tableExists THEN Raise("OperationalError", FALSE)
    ELSE Ok(TRUE)

\* a needFile that finds an empty table where there is none
needFileNoTable(now, mac, filename, size) ==
    LET s3_filename == build_s3_filename(now, mac, filename) IN
    IF s3_filename.exc # "" THEN Raise(s3_filename.exc, FALSE)
    ELSE Ok(SqlSelectMatch(IF tableExists THEN db ELSE EmptyTable, s3_filename.val, size) = {})

(* needFile opens a connection of its own, so it reads the committed rows,
   not the rows upload_files has written and not yet committed. *)
needFile(now, mac, filename, size) ==
    LET s3_filename == build_s3_filename(now, mac, filename) IN
    IF s3_filename.exc # "" THEN Raise(s3_filename.exc, FALSE)
    ELSE IF ~tableExists THEN Raise("OperationalError", FALSE)
    ELSE Ok(SqlSelectMatch(db, s3_filename.val, size) = {})

---------------------------------------------------------------------------
\* a transfer that reports success and stores nothing
upload_fileLost(bucket, key, size) == bucket

\* s3.upload_file that returned: the bucket holds the object under the key
upload_file(bucket, key, size) ==
    [k \in DOMAIN bucket \cup {key} |-> IF k = key THEN size ELSE bucket[k]]

(* Keys of the objects others may hold in the bucket: the keys the program can
   form in this model, and where DT_RULE lets it form none, the keys without a
   time bucket.  History helpers. *)

KeySpace ==
    LET built == {build_s3_filename(Instants[c], f.mac, f.name).val :
                     c \in {i \in 1..Len(Instants) : i <= MaxClock}, f \in Files} \ {""}
    IN IF built # {} THEN built ELSE {JoinKey(f.mac, "", f.name) : f \in Files}

Inc(n) == IF n < MaxCount THEN n + 1 ELSE n
NoneUp == [f \in Files |-> 0]
SomeUp == \E f \in Files : runUp[f] > 0

(* Nothing has run yet: an empty bucket, no row, no call in progress. *)
Quiet ==
    /\ clk = 1
    /\ db = EmptyTable
    /\ remote = [k \in {} |-> 0]
    /\ localSize = [f \in Files |-> 1]
    /\ pc = "idle"
    /\ tx = EmptyTable
    /\ existing_files = [k \in {} |-> 0]
    /\ current_files = [k \in {} |-> 0]
    /\ todoUp = {}
    /\ todoDel = {}
    /\ walk = {}
    /\ dec = <<>>
    /\ lastOp = "none"
    /\ result = "none"
    /\ err = ""
    /\ pre = EmptyTable
    /\ runUp = NoneUp
    /\ mutated = {}
    /\ uploads = NoneUp
    /\ written = {}
    /\ dirty = FALSE
    /\ resync = FALSE
    /\ justRec = FALSE
    /\ again = FALSE
    /\ ops = 0
    /\ calls = <<>>

Init ==
    /\ DT_RULE \in ConfiguredRules
    /\ tableExists \in BOOLEAN
    /\ Quiet

---------------------------------------------------------------------------
\* a connection in autocommit mode: every statement reaches the file at once
AfterStatementAutocommit(committed, view) == view

\* a close that writes the open transaction instead of dropping it
RollbackKeepsView(committed, view) == view

(* cursor.execute of an INSERT, UPDATE, DELETE or REPLACE: sqlite3 opens a
   transaction implicitly, so the committed rows stay as they are. *)
AfterStatement(committed, view) == committed

(* What an exception or the death of the process leaves in the file: the
   connection is closed without commit and its statements are rolled back. *)
Rollback(committed, view) == committed

---------------------------------------------------------------------------
(* update_local_database *)

ListingOutcomes == {"ok", "AllAccessDisabled", "ClientError"}

\* an except clause that re-raises every ClientError
ListingHandlerRaisesAll(code) == "raised"

\* an except clause that swallows every ClientError
ListingHandlerCatchesAll(code) == "returned"

\* lines 67-72: what the except clause does with the error code of a ClientError
ListingHandler(code) == IF code = "AllAccessDisabled" THEN "returned" ELSE "raised"
NoDict == [k \in {} |-> 0]

\* lines 58-76: ensure_database_exists, connect, list_objects_v2, the two dicts
CallReconcile ==
    /\ pc = "idle"
    /\ ops < MaxOps
    /\ ops' = ops + 1
    /\ tableExists' = ensure_database_exists(tableExists, db).exists
    /\ db' = ensure_database_exists(tableExists, db).rows
    /\ lastOp' = "update_local_database"
    /\ pre' = db
    /\ justRec' = FALSE
    /\ again' = (justRec /\ remote = current_files)
    /\ \E outcome \in ListingOutcomes :
        IF outcome = "ok" THEN
            /\ pc' = "reconcile"
            /\ result' = "running"
            /\ err' = ""
            /\ tx' = db'
            /\ existing_files' = SqlSelectAll(db')
            /\ current_files' = remote
            /\ todoUp' = DOMAIN remote
            /\ todoDel' = DOMAIN db'
        ELSE
            /\ pc' = "done"
            /\ result' = ListingHandler(outcome)
            /\ err' = outcome
            /\ tx' = EmptyTable
            /\ existing_files' = NoDict
            /\ current_files' = NoDict
            /\ todoUp' = {}
            /\ todoDel' = {}
    /\ UNCHANGED <<DT_RULE, calls, clk, remote, localSize, walk, dec, runUp, mutated,
                   uploads, written, dirty, resync>>

\* a comparison that finds every size changed
SizeDiffersAlways(old, new) == TRUE

\* line 82: existing_files[filename] != size
SizeDiffers(old, new) == old # new

\* lines 79-92: one iteration of "for filename, size in current_files.items()"
RecUpsert ==
    /\ pc = "reconcile"
    /\ \E filename \in todoUp, c \in Ticks(clk) :
        LET size == current_files[filename]
            updated_at == DATETIME_FORMAT(Instants[c])
            write == IF filename \in DOMAIN existing_files
                     THEN SizeDiffers(existing_files[filename], size)
                     ELSE TRUE
        IN
        /\ clk' = c
        /\ todoUp' = todoUp \ {filename}
        /\ tx' = IF filename \in DOMAIN existing_files
                 THEN IF SizeDiffers(existing_files[filename], size)
                      THEN SqlUpdate(tx, filename, size, updated_at)
                      ELSE tx
                 ELSE SqlInsert(tx, filename, size, updated_at)
        /\ mutated' = IF write THEN mutated \cup {filename} ELSE mutated
        /\ db' = AfterStatement(db, tx')
    /\ UNCHANGED <<DT_RULE, calls, tableExists, remote, localSize, pc, existing_files,
                   current_files, todoDel, walk, dec, lastOp, result, err, pre, runUp,
                   uploads, written, dirty, resync, justRec, again, ops>>

\* lines 95-98: one iteration of "for filename in existing_files"
RecDelete ==
    /\ pc = "reconcile"
    /\ todoUp = {}
    /\ \E filename \in todoDel :
        /\ todoDel' = todoDel \ {filename}
        /\ tx' = IF filename \notin DOMAIN current_files
                 THEN SqlDelete(tx, filename)
                 ELSE tx
        /\ mutated' = IF filename \notin DOMAIN current_files
                      THEN mutated \cup {filename}
                      ELSE mutated
        /\ db' = AfterStatement(db, tx')
    /\ UNCHANGED <<DT_RULE, calls, clk, tableExists, remote, localSize, pc, existing_files,
                   current_files, todoUp, walk, dec, lastOp, result, err, pre, runUp,
                   uploads, written, dirty, resync, justRec, again, ops>>

\* lines 100-101: conn.commit(), conn.close()
RecCommit ==
    /\ pc = "reconcile"
    /\ todoUp = {}
    /\ todoDel = {}
    /\ db' = Commit(db, tx)
    /\ tx' = EmptyTable
    /\ pc' = "done"
    /\ result' = "returned"
    /\ justRec' = TRUE
    /\ UNCHANGED <<DT_RULE, calls, clk, tableExists, remote, localSize, existing_files,
                   current_files, todoUp, todoDel, walk, dec, lastOp, err, pre, runUp,
                   mutated, uploads, written, dirty, resync, again, ops>>

---------------------------------------------------------------------------
(* upload_files *)

\* lines 119-125: connect and start the walk of data_directory
CallSync ==
    /\ pc = "idle"
    /\ ops < MaxOps
    /\ ops' = ops + 1
    /\ pc' = "upload"
    /\ lastOp' = "upload_files"
    /\ result' = "running"
    /\ err' = ""
    /\ pre' = db
    /\ tx' = db
    /\ walk' = Files
    /\ current_files' = NoDict
    /\ justRec' = FALSE
    /\ resync' = (resync \/ dirty)
    /\ UNCHANGED <<DT_RULE, calls, dirty, clk, tableExists, db, remote, localSize, existing_files,
                   todoUp, todoDel, dec, runUp, mutated, uploads, written, again>>

\* an exception leaves upload_files: the walk ends, nothing is committed
SyncAbort(exc) ==
    /\ pc' = "done"
    /\ result' = "raised"
    /\ err' = exc
    /\ db' = Rollback(db, tx)
    /\ tx' = EmptyTable
    /\ UNCHANGED <<walk, remote, runUp, uploads>>

\* lines 131-151: one regular file of the walk
SyncFile ==
    /\ pc = "upload"
    /\ \E f \in walk, c1 \in Ticks(clk) :
        LET size == localSize[f]
            need == needFile(Instants[c1], f.mac, f.name, size)
        IN
        IF need.exc # "" THEN
            /\ clk' = c1
            /\ dec' = dec
            /\ SyncAbort(need.exc)
        ELSE IF ~need.val THEN
            /\ clk' = c1
            /\ dec' = << [file |-> f, size |-> size, need |-> FALSE, s3_key |-> "",
                          at |-> c1,
                          key |-> build_s3_filename(Instants[c1], f.mac, f.name).val] >>
            /\ walk' = walk \ {f}
            /\ UNCHANGED <<pc, result, err, db, tx, remote, runUp, uploads>>
        ELSE
            \E c2 \in Ticks(c1), transferred \in BOOLEAN :
                LET s3_key == build_s3_filename(Instants[c2], f.mac, f.name) IN
                /\ dec' = << [file |-> f, size |-> size, need |-> TRUE,
                              s3_key |-> s3_key.val, at |-> c1,
                              key |-> build_s3_filename(Instants[c1], f.mac, f.name).val] >>
                /\ IF s3_key.exc # "" THEN
                       /\ clk' = c2
                       /\ SyncAbort(s3_key.exc)
                   ELSE IF ~transferred THEN
                       /\ clk' = c2
                       /\ SyncAbort("S3UploadFailedError")
                   ELSE
                       \E c3 \in Ticks(c2) :
                           LET updated_at == DATETIME_FORMAT(Instants[c3]) IN
                           /\ clk' = c3
                           /\ remote' = upload_file(remote, s3_key.val, size)
                           /\ tx' = SqlInsertOrReplace(tx, s3_key.val, size, updated_at)
                           /\ db' = AfterStatement(db, tx')
                           /\ runUp' = [runUp EXCEPT ![f] = Inc(@)]
                           /\ uploads' = IF f \in written THEN uploads
                                         ELSE [uploads EXCEPT ![f] = Inc(@)]
                           /\ walk' = walk \ {f}
                           /\ UNCHANGED <<pc, result, err>>
    /\ UNCHANGED <<DT_RULE, calls, tableExists, localSize, existing_files, current_files,
                   todoUp, todoDel, lastOp, pre, mutated, written, dirty, resync,
                   justRec, again, ops>>

\* lines 153-154: conn.commit(), conn.close()
SyncCommit ==
    /\ pc = "upload"
    /\ walk = {}
    /\ db' = Commit(db, tx)
    /\ tx' = EmptyTable
    /\ pc' = "done"
    /\ result' = "returned"
    /\ UNCHANGED <<DT_RULE, calls, clk, tableExists, remote, localSize, existing_files,
                   current_files, todoUp, todoDel, walk, dec, lastOp, err, pre, runUp,
                   mutated, uploads, written, dirty, resync, justRec, again, ops>>

---------------------------------------------------------------------------
(* The process is killed inside a call: the open transaction is lost. *)
Crash ==
    /\ pc \in {"reconcile", "upload"}
    /\ pc' = "done"
    /\ result' = "interrupted"
    /\ db' = Rollback(db, tx)
    /\ tx' = EmptyTable
    /\ UNCHANGED <<DT_RULE, calls, clk, tableExists, remote, localSize, existing_files,
                   current_files, todoUp, todoDel, walk, dec, lastOp, err, pre, runUp,
                   mutated, uploads, written, dirty, resync, justRec, again, ops>>

(* Control is back at the caller (or the process was started again): the
   locals of the call are gone. *)
Return ==
    /\ pc = "done"
    /\ pc' = "idle"
    /\ dirty' = IF lastOp = "update_local_database"
                THEN dirty /\ ~(result = "returned" /\ err = "")
                ELSE dirty \/ (result # "returned" /\ SomeUp)
    /\ current_files' = IF justRec THEN current_files ELSE NoDict
    /\ existing_files' = NoDict
    /\ todoUp' = {}
    /\ todoDel' = {}
    /\ walk' = {}
    /\ dec' = <<>>
    /\ lastOp' = "none"
    /\ result' = "none"
    /\ err' = ""
    /\ pre' = EmptyTable
    /\ runUp' = NoneUp
    /\ mutated' = {}
    /\ again' = FALSE
    /\ UNCHANGED <<DT_RULE, calls, clk, tableExists, db, remote, localSize, tx, uploads,
                   written, resync, justRec, ops>>

---------------------------------------------------------------------------
(* The environment, between two calls. *)

EnvStep ==
    /\ pc = "idle"
    /\ ops < MaxOps
    /\ ops' = ops + 1
    /\ justRec' = FALSE
    /\ current_files' = NoDict
    /\ UNCHANGED <<DT_RULE, calls, clk, tableExists, pc, tx, existing_files, todoUp, todoDel,
                   walk, dec, lastOp, result, err, pre, runUp, mutated, dirty, resync, again>>

\* a file of data_directory gets another size
LocalWrite ==
    /\ EnvStep
    /\ \E f \in Files, s \in Sizes :
        /\ s # localSize[f]
        /\ localSize' = [localSize EXCEPT ![f] = s]
        /\ written' = written \cup {f}
        /\ uploads' = [uploads EXCEPT ![f] = 0]
    /\ UNCHANGED <<db, remote>>

\* several files of data_directory get another size between two calls
LocalWriteMany ==
    /\ EnvStep
    /\ \E sizes \in [Files -> Sizes] :
        /\ Cardinality({f \in Files : sizes[f] # localSize[f]}) > 1
        /\ localSize' = sizes
        /\ written' = written \cup {f \in Files : sizes[f] # localSize[f]}
        /\ uploads' = [f \in Files |-> IF sizes[f] # localSize[f] THEN 0 ELSE uploads[f]]
    /\ UNCHANGED <<db, remote>>

\* somebody else puts an object into the bucket
ExternalPut ==
    /\ EnvStep
    /\ \E k \in KeySpace, s \in Sizes :
        /\ (IF k \in DOMAIN remote THEN remote[k] # s ELSE TRUE)
        /\ remote' = [x \in DOMAIN remote \cup {k} |-> IF x = k THEN s ELSE remote[x]]
    /\ UNCHANGED <<db, localSize, written, uploads>>

\* somebody else deletes an object of the bucket
ExternalDelete ==
    /\ EnvStep
    /\ \E k \in DOMAIN remote :
        remote' = [x \in DOMAIN remote \ {k} |-> remote[x]]
    /\ UNCHANGED <<db, localSize, written, uploads>>

\* a row of s3_files is deleted by hand
ManualDelete ==
    /\ EnvStep
    /\ \E k \in DOMAIN db :
        db' = SqlDelete(db, k)
    /\ UNCHANGED <<remote, localSize, written, uploads>>

---------------------------------------------------------------------------
Next ==
    \/ CallReconcile
    \/ RecUpsert
    \/ RecDelete
    \/ RecCommit
    \/ CallSync
    \/ SyncFile
    \/ SyncCommit
    \/ Crash
    \/ Return
    \/ LocalWrite
    \/ ExternalPut
    \/ ExternalDelete
    \/ ManualDelete

Spec == Init /\ [][Next]_vars

(* The bucket is written by this program only, the table by nobody else. *)
NextClosed ==
    \/ CallReconcile
    \/ RecUpsert
    \/ RecDelete
    \/ RecCommit
    \/ CallSync
    \/ SyncFile
    \/ SyncCommit
    \/ Crash
    \/ Return
    \/ LocalWrite

SpecClosed == Init /\ [][NextClosed]_vars

(* As SpecClosed, but no call is cut short by the end of the process (calls
   return or raise), and several files may change between two calls. *)
NextRuns ==
    \/ CallReconcile
    \/ RecUpsert
    \/ RecDelete
    \/ RecCommit
    \/ CallSync
    \/ SyncFile
    \/ SyncCommit
    \/ Return
    \/ LocalWrite
    \/ LocalWriteMany

SpecRuns == Init /\ [][NextRuns]_vars

---------------------------------------------------------------------------
(* The key builders alone: every DT_RULE, every sample instant, and key parts
   that hold no '/'. *)

KeyParts == {"", "a", "b", "ab"}

InitKeys ==
    /\ DT_RULE \in Rules
    /\ tableExists = FALSE
    /\ Quiet

Called(call) == IF calls = <<>> THEN <<call>> ELSE <<calls[Len(calls)], call>>

\* lines 50-56: build_s3_filename(mac, filename) at some reading of the clock
BuildCall ==
    /\ \E c \in 1..Len(Instants), f \in Files :
        calls' = Called([mac |-> f.mac, filename |-> f.name, at |-> c,
                         datetime_str |-> format_datetime(Instants[c]).val,
                         ret |-> build_s3_filename(Instants[c], f.mac, f.name)])
    /\ UNCHANGED <<DT_RULE, clk, tableExists, db, remote, localSize, pc, tx,
                   existing_files, current_files, todoUp, todoDel, walk, dec, lastOp,
                   result, err, pre, runUp, mutated, uploads, written, dirty, resync,
                   justRec, again, ops>>

\* lines 53-56 on parts given from outside
JoinCall ==
    /\ \E mac \in KeyParts, datetime_str \in KeyParts, filename \in KeyParts :
        calls' = Called([mac |-> mac, filename |-> filename, at |-> 0,
                         datetime_str |-> datetime_str,
                         ret |-> Ok(JoinKey(mac, datetime_str, filename))])
    /\ UNCHANGED <<DT_RULE, clk, tableExists, db, remote, localSize, pc, tx,
                   existing_files, current_files, todoUp, todoDel, walk, dec, lastOp,
                   result, err, pre, runUp, mutated, uploads, written, dirty, resync,
                   justRec, again, ops>>

NextKeys ==
    \/ BuildCall
    \/ JoinCall

SpecKeys == InitKeys /\ [][NextKeys]_vars

---------------------------------------------------------------------------
(* Properties *)

\* the (identity, size) pairs of a table and of a listing
TablePairs(t) == {<<k, t[k].size>> : k \in DOMAIN t}
ListingPairs(l) == {<<k, l[k]>> : k \in DOMAIN l}

\* the table holds a row for this identity with this size
HasRecord(t, identity, size) == identity \in DOMAIN t /\ t[identity].size = size

\* a call of the given function has just ended in the given way
Ended(op, how) == pc = "done" /\ lastOp = op /\ result = how
ReconcileCompleted == Ended("update_local_database", "returned") /\ err = ""
SyncCompleted == Ended("upload_files", "returned")

\* the identity of a file when DT_RULE is 'never'
NeverKey(f) == f.mac \o "/" \o f.name

(* C1: Convergence.  When update_local_database has completed (the listing
   was not refused), the (identity, size) pairs of the committed table are
   exactly those of the listing L it fetched: every remote identity has a row
   with the remote size and no row exists for an identity absent from L. *)
C1_Convergence ==
    ReconcileCompleted =>
        /\ TablePairs(db) = ListingPairs(current_files)
        /\ current_files = remote

\* C1 witness: a completed pass that met a row whose size differed from the listing's
C1_Witness ==
    /\ ReconcileCompleted
    /\ \E k \in DOMAIN pre \cap DOMAIN current_files :
           pre[k].size # current_files[k] /\ db[k].size = current_files[k]

(* C2: Decision correctness.  Whenever needFile has answered for an identity
   and a size, its answer is True exactly when the committed table holds no
   row with that identity and that size (a row with the identity and another
   size gives True); and once upload_files has committed the row it wrote for
   a transferred file, the table holds that identity with that size, so the
   answer for it is False. *)
C2_DecisionCorrect ==
    /\ (pc = "upload" /\ dec # <<>>) =>
           (dec[1].need <=> ~HasRecord(db, dec[1].key, dec[1].size))
    /\ (SyncCompleted /\ dec # <<>> /\ dec[1].need) =>
           /\ HasRecord(db, dec[1].s3_key, dec[1].size)
           /\ SqlSelectMatch(db, dec[1].s3_key, dec[1].size) # {}

\* C2 witness: needFile answered True for an identity the table holds with another size
C2_Witness ==
    /\ pc = "upload"
    /\ dec # <<>>
    /\ dec[1].need
    /\ dec[1].key \in DOMAIN db
    /\ db[dec[1].key].size # dec[1].size

(* C3: with DT_RULE 'never', upload_files transfers a file exactly when the
   table it started from has no row with the file's identity and size: a file
   already recorded with its size is not transferred, any other visited file
   is transferred exactly once, and when upload_files has completed the table
   holds every file's identity with the file's size. *)
C3_SyncTransfersWhenNeeded ==
    (DT_RULE = "never" /\ lastOp = "upload_files" /\ pc \in {"upload", "done"}) =>
        /\ \A f \in Files :
               runUp[f] = IF f \notin walk /\ ~HasRecord(pre, NeverKey(f), localSize[f])
                          THEN 1 ELSE 0
        /\ SyncCompleted =>
               \A f \in Files : HasRecord(db, NeverKey(f), localSize[f])

\* C3 witness: a file recorded with another size was transferred once, the run completed
C3_Witness ==
    /\ DT_RULE = "never"
    /\ SyncCompleted
    /\ \E f \in Files :
           /\ NeverKey(f) \in DOMAIN pre
           /\ pre[NeverKey(f)].size # localSize[f]
           /\ runUp[f] = 1
    /\ \E g \in Files : HasRecord(pre, NeverKey(g), localSize[g]) /\ runUp[g] = 0

(* C4: when the listing fails with the error code AllAccessDisabled,
   update_local_database returns without raising and the committed rows
   (filename, size, updated_at) are those of before the call. *)
C4_AccessDisabledLeavesCache ==
    (pc = "done" /\ lastOp = "update_local_database" /\ err = "AllAccessDisabled") =>
        /\ result = "returned"
        /\ db = pre

\* C4 witness: the listing was refused while the table held rows
C4_Witness ==
    /\ pc = "done"
    /\ lastOp = "update_local_database"
    /\ err = "AllAccessDisabled"
    /\ pre # EmptyTable
    /\ TablePairs(pre) # ListingPairs(remote)

(* C5: when the listing fails with any other error, update_local_database
   raises it to the caller and the committed rows are those of before the call. *)
C5_OtherListingErrorPropagates ==
    (pc = "done" /\ lastOp = "update_local_database" /\ err = "ClientError") =>
        /\ result = "raised"
        /\ db = pre

\* C5 witness: the listing failed with another error while the table held rows
C5_Witness ==
    /\ pc = "done"
    /\ lastOp = "update_local_database"
    /\ err = "ClientError"
    /\ pre # EmptyTable
    /\ TablePairs(pre) # ListingPairs(remote)

(* C6: when a transfer fails in upload_files, the failure is raised to the
   caller, no file is visited after it (the failed file and the files behind
   it were not transferred), and the committed rows are those of before the
   call, also when files before it were transferred. *)
C6_FailedTransferCommitsNothing ==
    (pc = "done" /\ lastOp = "upload_files" /\ err = "S3UploadFailedError") =>
        /\ result = "raised"
        /\ db = pre
        /\ walk # {}
        /\ \A f \in walk : runUp[f] = 0

\* C6 witness: the transfer of a later file failed after an earlier file was transferred
C6_Witness ==
    /\ pc = "done"
    /\ lastOp = "upload_files"
    /\ err = "S3UploadFailedError"
    /\ \E f \in Files :
           /\ runUp[f] = 1
           /\ dec[1].file # f
           /\ \E k \in DOMAIN remote : k \notin DOMAIN db

(* C7: Self-healing.  Every object of the bucket for which the table had no
   row when update_local_database was called (the row was deleted, or
   upload_files ended after the transfer and before its commit) has a row
   with the remote size once the call has completed, so needFile's query for
   it finds a match. *)
C7_SelfHealing ==
    ReconcileCompleted =>
        \A k \in DOMAIN remote \ DOMAIN pre :
            /\ HasRecord(db, k, remote[k])
            /\ SqlSelectMatch(db, k, remote[k]) # {}

\* C7 witness: a pass completed after an upload_files run that lost its rows
C7_Witness ==
    /\ ReconcileCompleted
    /\ dirty
    /\ \E k \in DOMAIN remote \ DOMAIN pre : HasRecord(db, k, remote[k])

(* C8 as claimed: with DT_RULE 'never', a file whose size never changed is
   transferred at most once over any sequence of update_local_database and
   upload_files runs, aborted runs included. *)
C8_AtMostOnce_Claimed ==
    DT_RULE = "never" => \A f \in Files \ written : uploads[f] <= 1

(* C8 amended: with DT_RULE 'never', a file whose size never changed is
   transferred at most once, as long as upload_files was never called while
   an earlier run's transfer was still unrecorded, that is: every
   upload_files run that ended by an exception or an interruption after it
   had transferred a file was followed by a completed update_local_database
   before the next upload_files. *)
C8_AtMostOnce ==
    (DT_RULE = "never" /\ ~resync) => \A f \in Files \ written : uploads[f] <= 1

\* C8 witness: a later run visited a file transferred once before and left it alone
C8_Witness ==
    /\ DT_RULE = "never"
    /\ ~resync
    /\ lastOp = "upload_files"
    /\ pc = "done"
    /\ \E f \in Files \ written :
           uploads[f] = 1 /\ runUp[f] = 0 /\ f \notin walk

(* C9: Atomicity of a pass.  From the call of update_local_database to its
   end the committed rows are those of before the call, and they change in
   one step, at the commit, to the complete result; an interruption leaves
   the rows of before the call. *)
C9_ReconcileAtomic ==
    (lastOp = "update_local_database" /\ pc \in {"reconcile", "done"}) =>
        \/ db = pre
        \/ ReconcileCompleted /\ TablePairs(db) = ListingPairs(current_files)

\* C9 witness: a pass interrupted after it had executed two statements
C9_Witness ==
    /\ Ended("update_local_database", "interrupted")
    /\ Cardinality(mutated) >= 2
    /\ db = pre

(* C10: Idempotence.  A pass that starts right after a completed pass, with
   the same listing, executes no INSERT, UPDATE or DELETE, and when it has
   completed every row (filename, size, updated_at) is as before it. *)
C10_Idempotent ==
    (lastOp = "update_local_database" /\ pc \in {"reconcile", "done"} /\ again) =>
        /\ mutated = {}
        /\ ReconcileCompleted => db = pre

\* C10 witness: the second pass completed at a later minute than the rows were written
C10_Witness ==
    /\ ReconcileCompleted
    /\ again
    /\ \E k \in DOMAIN db : db[k].updated_at # DATETIME_FORMAT(Instants[clk])

---------------------------------------------------------------------------
(* Helpers for the claims about one upload_files run. *)

\* the rows as the running call has them: its connection's view while the walk
\* runs, the committed rows once the call has ended
RunView == IF pc = "upload" THEN tx ELSE db

\* filenames whose row the call has created or replaced
Touched(view) == {k \in DOMAIN view : k \notin DOMAIN pre \/ view[k] # pre[k]}

\* the keys build_s3_filename can give for a file
KeysOf(f) == {build_s3_filename(Instants[c], f.mac, f.name).val : c \in 1..Len(Instants)}

InSync == lastOp = "upload_files" /\ pc \in {"upload", "done"}

\* C11: during and after an upload_files run, every row the run has created or
\* replaced belongs to a file the run has transferred and names an object the
\* bucket holds with the recorded size; no row is removed; a run that has
\* transferred nothing has touched no row, and a run ended by an exception
\* leaves the committed rows as they were.
C11_RecordOnlyAfterTransfer ==
    InSync =>
        /\ DOMAIN pre \subseteq DOMAIN RunView
        /\ \A k \in Touched(RunView) :
            /\ k \in DOMAIN remote
            /\ remote[k] = RunView[k].size
            /\ \E f \in Files : runUp[f] > 0 /\ k \in KeysOf(f)
        /\ (~SomeUp => Touched(RunView) = {})
        /\ (result = "raised" => db = pre)

C11_Witness ==
    /\ InSync
    /\ pc = "done"
    /\ result = "returned"
    /\ \E f \in Files, g \in Files : runUp[f] = 1 /\ runUp[g] = 0
    /\ Touched(db) # {}

---------------------------------------------------------------------------
\* two sample instants of the same calendar day
SameDay(c1, c2) ==
    /\ Instants[c1].Y = Instants[c2].Y
    /\ Instants[c1].m = Instants[c2].m
    /\ Instants[c1].d = Instants[c2].d

\* the values updated_at can take on the day of instant c
StampsOfDay(c) == {DATETIME_FORMAT(Instants[i]) : i \in {j \in 1..Len(Instants) : SameDay(j, c)}}

\* the rows table t holds for file f
RowsOf(t, f) == {k \in DOMAIN t : k \in KeysOf(f)}

\* the walk has decided on file d.file on a later day than the day a row of that
\* file with the same size was written, and no row of the file was written on
\* the day of the decision
RolledOver(d) ==
    /\ \E k \in RowsOf(pre, d.file) :
        /\ pre[k].size = d.size
        /\ \E c0 \in 1..d.at : ~SameDay(c0, d.at) /\ pre[k].updated_at \in StampsOfDay(c0)
    /\ \A k \in RowsOf(pre, d.file) : pre[k].updated_at \notin StampsOfDay(d.at)

\* C12: with DT_RULE 'days' and the bucket written by this program only, a file
\* recorded on an earlier day and decided on for the first time on a later day,
\* its size unchanged, is found to need an upload; unless the call raises, the
\* file is transferred under a key the table did not hold when the call began,
\* and that key is recorded with the size.
C12_ReuploadAfterRollover ==
    (InSync /\ DT_RULE = "days" /\ dec # <<>>) =>
        LET d == dec[1] IN
        RolledOver(d) =>
            /\ d.need
            /\ (result \in {"running", "returned"} =>
                    /\ runUp[d.file] > 0
                    /\ d.s3_key \notin DOMAIN pre
                    /\ d.s3_key \in DOMAIN remote
                    /\ remote[d.s3_key] = d.size
                    /\ HasRecord(RunView, d.s3_key, d.size))

C12_Witness ==
    /\ InSync
    /\ DT_RULE = "days"
    /\ pc = "done"
    /\ result = "returned"
    /\ dec # <<>>
    /\ RolledOver(dec[1])
    /\ dec[1].need
    /\ runUp[dec[1].file] = 1
    /\ Cardinality(RowsOf(db, dec[1].file)) = 2

---------------------------------------------------------------------------
(* The time bucket of an instant under a rule, as fields of the calendar. *)
BucketOf(rule, now) ==
    IF rule = "seconds" THEN <<now.Y, now.m, now.d, now.H, now.M, now.S>>
    ELSE IF rule = "hours" THEN <<now.Y, now.m, now.d, now.H>>
    ELSE IF rule = "days" THEN <<now.Y, now.m, now.d>>
    ELSE IF rule = "weeks" THEN <<now.Y, WeekU(now)>>
    ELSE IF rule = "months" THEN <<now.Y, now.m>>
    ELSE IF rule = "years" THEN <<now.Y>>
    ELSE <<>>

BucketRules == {"seconds", "hours", "days", "weeks", "months", "years"}

\* the recorded calls of build_s3_filename(mac, filename)
BuildCalls == {i \in 1..Len(calls) : calls[i].at > 0}

\* C13: with DT_RULE 'never' build_s3_filename returns mac/filename at every
\* instant; with DT_RULE seconds, hours, days, weeks, months or years it returns
\* mac/bucket/filename with a bucket that is not empty, the same key for two
\* instants of one bucket and different keys for two instants of different
\* buckets (same mac and filename).
C13_KeyDeterminism ==
    \A i \in BuildCalls, j \in BuildCalls :
        LET a == calls[i]
            b == calls[j]
            same == BucketOf(DT_RULE, Instants[a.at]) = BucketOf(DT_RULE, Instants[b.at])
        IN
        /\ (DT_RULE = "never" =>
                a.ret = Ok(a.mac \o "/" \o a.filename))
        /\ (DT_RULE \in BucketRules =>
                /\ a.datetime_str # ""
                /\ a.ret = Ok(a.mac \o "/" \o a.datetime_str \o "/" \o a.filename))
        /\ (DT_RULE = "days" /\ a.at = 1 => a.ret.val = "dev1/20241228/" \o a.filename)
        /\ (DT_RULE = "weeks" /\ a.at = 2 => a.ret.val = "dev1/202452/" \o a.filename)
        /\ (DT_RULE \in BucketRules /\ a.mac = b.mac /\ a.filename = b.filename =>
                (same <=> a.ret.val = b.ret.val))

C13_Witness ==
    /\ Len(calls) = 2
    /\ BuildCalls = {1, 2}
    /\ DT_RULE = "months"
    /\ calls[1].filename = calls[2].filename
    /\ calls[1].at = 5
    /\ calls[2].at = 6
    /\ calls[1].ret.val # calls[2].ret.val

---------------------------------------------------------------------------
\* the values of DT_RULE format_datetime knows
KnownRules == BucketRules \cup {"never"}

\* C14: with a DT_RULE format_datetime does not know, every build_s3_filename
\* raises ValueError and an upload_files run gets no decision from needFile, transfers nothing and leaves the committed rows
\* and the bucket's keys as they were, and unless the process is stopped first
\* it ends by raising ValueError.
C14_UnknownRuleAborts ==
    (InSync /\ DT_RULE \notin KnownRules) =>
        /\ dec = <<>>
        /\ runUp = NoneUp
        /\ db = pre
        /\ tx \in {pre, EmptyTable}
        /\ (\A f \in Files, c \in 1..Len(Instants) :
                build_s3_filename(Instants[c], f.mac, f.name) = Raise("ValueError", ""))
        /\ (pc = "done" /\ result # "interrupted" => result = "raised" /\ err = "ValueError")
        /\ (pc = "upload" => walk = Files)

C14_Witness ==
    /\ InSync
    /\ DT_RULE \notin KnownRules
    /\ pc = "done"
    /\ result = "raised"
    /\ err = "ValueError"
    /\ db # EmptyTable

---------------------------------------------------------------------------
InReconcile == lastOp = "update_local_database" /\ pc \in {"reconcile", "done"}

\* C15: ensure_database_exists leaves a table that exists, with the rows the
\* table held before, or no row if there was no table; run a second time it
\* changes nothing more.  So from the call of update_local_database up to its
\* commit the table exists and the committed rows are those of before the call.
C15_InitIdempotent ==
    LET once == ensure_database_exists(tableExists, db)
        twice == ensure_database_exists(once.exists, once.rows)
    IN
    /\ once.exists
    /\ twice = once
    /\ (tableExists => once.rows = db)
    /\ (~tableExists => once.rows = EmptyTable /\ db = EmptyTable)
    /\ (InReconcile => tableExists)
    /\ (InReconcile /\ ~(result = "returned" /\ err = "") => db = pre)

C15_Witness ==
    /\ InReconcile
    /\ pc = "reconcile"
    /\ mutated = {}
    /\ todoUp = DOMAIN current_files
    /\ pre # EmptyTable
    /\ db = pre
    /\ tx = pre

---------------------------------------------------------------------------
\* C16: for every file an upload_files run transfers, the key given to
\* s3.upload_file and written to s3_files (s3_key, line 140) is the key needFile
\* looked up for its decision (s3_filename, line 109).
C16_SameIdentity ==
    (InSync /\ dec # <<>>) =>
        (dec[1].need /\ runUp[dec[1].file] > 0 => dec[1].s3_key = dec[1].key)

---------------------------------------------------------------------------
\* the rows as the running update_local_database has them
PassView == IF pc = "reconcile" THEN tx ELSE db

\* filenames of the table whose size the listing confirms
Confirmed == {k \in DOMAIN pre \cap DOMAIN current_files : pre[k].size = current_files[k]}

\* C17: during an update_local_database pass and after its commit, a row whose
\* filename is listed with the size the table held keeps size and updated_at;
\* the rows that are new or changed are rows of filenames the table did not
\* hold or held with another size; the rows removed are rows of filenames the
\* listing does not hold, and after the commit all of those are removed.
C17_ReconcileFrame ==
    (InReconcile /\ err = "" /\ result \in {"running", "returned"}) =>
        /\ \A k \in Confirmed : k \in DOMAIN PassView /\ PassView[k] = pre[k]
        /\ Touched(PassView) \subseteq DOMAIN current_files \ Confirmed
        /\ DOMAIN pre \ DOMAIN PassView \subseteq DOMAIN pre \ DOMAIN current_files
        /\ mutated \cap Confirmed = {}
        /\ (result = "returned" =>
                DOMAIN pre \ DOMAIN db = DOMAIN pre \ DOMAIN current_files)

C17_Witness ==
    /\ ReconcileCompleted
    /\ \E k \in Confirmed :
        /\ db[k] = pre[k]
        /\ pre[k].updated_at # DATETIME_FORMAT(Instants[clk])
    /\ \E k \in DOMAIN pre \cap DOMAIN db :
        /\ db[k].size # pre[k].size
        /\ db[k].updated_at # pre[k].updated_at

---------------------------------------------------------------------------
\* the parts a recorded call made its key from
Triple(call) == <<call.mac, call.datetime_str, call.filename>>

\* C18: two keys made from different triples (mac, time bucket, filename) of
\* parts without '/' are different strings, and a triple with an empty time
\* bucket gives mac/filename, the key of DT_RULE 'never'.
C18_Injective ==
    \A i \in 1..Len(calls), j \in 1..Len(calls) :
        (calls[i].ret.exc = "" /\ calls[j].ret.exc = "") =>
            /\ (Triple(calls[i]) # Triple(calls[j]) => calls[i].ret.val # calls[j].ret.val)
            /\ (calls[i].datetime_str = "" =>
                    calls[i].ret.val = calls[i].mac \o "/" \o calls[i].filename)

C18_Witness ==
    /\ Len(calls) = 2
    /\ Triple(calls[1]) = <<"a", "", "b">>
    /\ Triple(calls[2]) = <<"a", "b", "">>
    /\ calls[1].ret = Ok("a/b")
    /\ calls[2].ret = Ok("a/b/")

---------------------------------------------------------------------------
\* every (filename, size) for which needFile answers False is an object of the
\* bucket with that size
CacheBackedByBucket ==
    \A k \in DOMAIN db : k \in DOMAIN remote /\ remote[k] = db[k].size

\* an upload_files run has transferred a file whose row it has not committed,
\* and no update_local_database has completed since
Unrecorded == dirty \/ (InSync /\ result # "returned" /\ SomeUp)

\* C19 as claimed: whenever no call is running, every (filename, size) for
\* which needFile answers False is an object of the bucket with that size.
C19_NoFalsePresent_Claimed ==
    pc \in {"idle", "done"} => CacheBackedByBucket

\* C19: every (filename, size) for which needFile answers False is an object
\* of the bucket with that size, in every state in which no upload_files run
\* has transferred a file without committing its row since the last completed
\* update_local_database.
C19_NoFalsePresent ==
    ~Unrecorded => CacheBackedByBucket

C19_Witness ==
    /\ pc = "idle"
    /\ ~Unrecorded
    /\ \E f \in Files : f \in written /\ HasRecord(db, NeverKey(f), localSize[f])
    /\ ~needFile(Instants[clk], "dev1", "a.txt", localSize[[mac |-> "dev1", name |-> "a.txt"]]).val
    /\ ops = MaxOps

---------------------------------------------------------------------------
\* C20: the s3_files table comes into being only in the step that calls
\* update_local_database; while it does not exist, no step of upload_files creates
\* it, changes the bucket or writes a row; needFile returns no decision, and
\* the step that reaches a file ends the call: it raises sqlite3's
\* OperationalError (ValueError if DT_RULE is unknown, as format_datetime runs
\* first), unless the process is stopped before.
C20_SyncNeverInitializes ==
    [][ /\ (~tableExists /\ tableExists') => (pc = "idle" /\ lastOp' = "update_local_database")
        /\ (~tableExists /\ lastOp' = "upload_files") =>
            /\ ~tableExists'
            /\ remote' = remote
            /\ db' = db
            /\ db' = EmptyTable
            /\ tx' = EmptyTable
            /\ runUp' = NoneUp
            /\ dec' = <<>>
            /\ (pc = "upload" =>
                    /\ pc' = "done"
                    /\ result' \in {"raised", "interrupted"}
                    /\ (result' = "raised" =>
                            err' = IF DT_RULE \in KnownRules THEN "OperationalError"
                                   ELSE "ValueError")) ]_vars

C20_Witness ==
    /\ InSync
    /\ pc = "done"
    /\ ~tableExists
    /\ result = "raised"
    /\ err = "OperationalError"
    /\ walk = Files
    /\ remote = NoDict

====
